---- MODULE Spec2Model ----
(***************************************************************************)
(* Model of compute_sales.py: the pipeline of main() (argument check, two  *)
(* loads, price index, sales processing, report, file write, console       *)
(* output) with the pandas operations it relies on.                        *)
(*                                                                         *)
(* Scalars are cells [t, n, s]: t is the Python type of the value          *)
(* ("int", "float", "str", "nan" for float('nan'), "none" for None), n the *)
(* numeric value (for a str: how many times s is repeated), s the text.    *)
(* Floats carry integer values only: the model tracks the int/float type   *)
(* distinction, which decides str * number, not rounding.                  *)
(* A DataFrame is [columns, rows]; every row carries its index label idx.  *)
(* Product titles are strings and Quantity/price cells are never null.     *)
(***************************************************************************)
EXTENDS Integers, Sequences, FiniteSets, TLC

\* ---------------------------------------------------------------- bounds
MaxProducts == 2
MaxSales == 2
MaxArgs == 3
MaxElapsed == 1

\* ----------------------------------------------------------------- cells
PyInt(n) == [t |-> "int", n |-> n, s |-> ""]
PyFloat(n) == [t |-> "float", n |-> n, s |-> ""]
PyStr(s) == [t |-> "str", n |-> 1, s |-> s]
NaN == [t |-> "nan", n |-> 0, s |-> ""]
None == [t |-> "none", n |-> 0, s |-> ""]
TypeError == [t |-> "TypeError", n |-> 0, s |-> ""]

Titles == {"A", "B"}
Prices == {PyInt(10), PyFloat(12)}
Quantities == {PyInt(0), PyInt(0 - 1), PyInt(2), PyStr("two")}

NotFound == PyStr("Producto no encontrado")
PreviewRows == 10
ErrorPreviewRows == 5

SeqsUpTo(S, n) == UNION {[1..k -> S] : k \in 0..n}

ProductRecords == [title : Titles, price : Prices]
SaleRecords == [Product : Titles, Quantity : Quantities]

\* A file is either unreadable (missing, not JSON) or a JSON array of objects.
Unreadable == [ok |-> FALSE, data |-> <<>>]
ProductFiles == {Unreadable} \cup {[ok |-> TRUE, data |-> d] : d \in SeqsUpTo(ProductRecords, MaxProducts)}
SalesFiles == {Unreadable} \cup {[ok |-> TRUE, data |-> d] : d \in SeqsUpTo(SaleRecords, MaxSales)}

\* ------------------------------------------------------- pandas helpers
EmptyDataFrame == [columns |-> {}, rows |-> <<>>]

IsNumber(c) == c.t \in {"int", "float", "nan"}

\* isinstance(x, (int, float)): float('nan') is a float, None and str are not.
IsInstanceIntFloat(c) == c.t \in {"int", "float", "nan"}

\* Series.isna(): NaN and None are missing; 0 and strings are not.
IsNaMutZero(c) == c.t \in {"nan", "none"} \/ (IsNumber(c) /\ c.n = 0)
IsNa(c) == c.t \in {"nan", "none"}

AsFloat(c) == IF c.t = "int" THEN PyFloat(c.n) ELSE IF c.t = "none" THEN NaN ELSE c

\* dtype inference of a column: any str keeps the column as object (cells
\* unchanged); otherwise one float/NaN/None makes the column float64.
InferColumn(cells) ==
    IF \E i \in DOMAIN cells : cells[i].t = "str" THEN cells
    ELSE IF \E i \in DOMAIN cells : cells[i].t \in {"float", "nan", "none"}
         THEN [i \in DOMAIN cells |-> AsFloat(cells[i])]
         ELSE cells

\* pd.read_json on a JSON array of objects: [] gives a frame with no columns.
ReadProducts(data) ==
    IF data = <<>> THEN EmptyDataFrame
    ELSE LET price == InferColumn([i \in DOMAIN data |-> data[i].price])
         IN [columns |-> {"title", "price"},
             rows |-> [i \in DOMAIN data |->
                         [idx |-> i - 1, title |-> data[i].title, price |-> price[i]]]]

ReadSales(data) ==
    IF data = <<>> THEN EmptyDataFrame
    ELSE LET qty == InferColumn([i \in DOMAIN data |-> data[i].Quantity])
         IN [columns |-> {"Product", "Quantity"},
             rows |-> [i \in DOMAIN data |->
                         [idx |-> i - 1, Product |-> data[i].Product, Quantity |-> qty[i]]]]

load_products(file) == IF file.ok THEN ReadProducts(file.data) ELSE EmptyDataFrame
load_sales(file) == IF file.ok THEN ReadSales(file.data) ELSE EmptyDataFrame

MaxOf(S) == CHOOSE x \in S : \A y \in S : y <= x
MinOf(S) == CHOOSE x \in S : \A y \in S : x <= y

\* df.set_index("title")["price"].to_dict(): later rows overwrite earlier ones.
map_product_prices_first(df_products) ==
    LET r == df_products.rows
        ts == {r[i].title : i \in DOMAIN r}
    IN [t \in ts |-> r[MinOf({i \in DOMAIN r : r[i].title = t})].price]
map_product_prices(df_products) ==
    LET r == df_products.rows
        ts == {r[i].title : i \in DOMAIN r}
    IN [t \in ts |-> r[MaxOf({i \in DOMAIN r : r[i].title = t})].price]

\* Series.map(dict): a key absent from the dict maps to NaN.
SeriesMapDefaultZero(rows, product_prices) ==
    InferColumn([i \in DOMAIN rows |->
        IF rows[i].Product \in DOMAIN product_prices
        THEN product_prices[rows[i].Product] ELSE PyInt(0)])
SeriesMap(rows, product_prices) ==
    InferColumn([i \in DOMAIN rows |->
        IF rows[i].Product \in DOMAIN product_prices
        THEN product_prices[rows[i].Product] ELSE NaN])

\* Series.fillna("Producto no encontrado")
FillNa(cells) == [i \in DOMAIN cells |-> IF IsNa(cells[i]) THEN NotFound ELSE cells[i]]

Pos(n) == IF n > 0 THEN n ELSE 0

\* Python's q * u for u an int or a float
MulAdd(q, u) ==
    IF q.t = "str"
    THEN IF u.t = "int" THEN [t |-> "str", n |-> q.n * Pos(u.n), s |-> q.s] ELSE TypeError
    ELSE IF q.t = "nan" \/ u.t = "nan" THEN NaN
    ELSE IF q.t = "int" /\ u.t = "int" THEN PyInt(q.n + u.n)
    ELSE PyFloat(q.n + u.n)
Mul(q, u) ==
    IF q.t = "str"
    THEN IF u.t = "int" THEN [t |-> "str", n |-> q.n * Pos(u.n), s |-> q.s] ELSE TypeError
    ELSE IF q.t = "nan" \/ u.t = "nan" THEN NaN
    ELSE IF q.t = "int" /\ u.t = "int" THEN PyInt(q.n * u.n)
    ELSE PyFloat(q.n * u.n)

\* the lambda of lines 56-58
RowTotal(row) ==
    IF IsInstanceIntFloat(row.Unit_Price) THEN Mul(row.Quantity, row.Unit_Price) ELSE None

RECURSIVE SelectRows(_, _)
\* rows whose index label is in keep, in table order
SelectRows(rows, keep) ==
    IF rows = <<>> THEN <<>>
    ELSE LET rest == SelectRows(Tail(rows), keep)
         IN IF Head(rows).idx \in keep THEN <<Head(rows)>> \o rest ELSE rest

Labels(rows) == {rows[i].idx : i \in DOMAIN rows}

\* df[df["Total_Cost"].isna()]
ErrorRows(df) ==
    [columns |-> df.columns,
     rows |-> SelectRows(df.rows, {df.rows[i].idx : i \in {j \in DOMAIN df.rows : IsNa(df.rows[j].Total_Cost)}})]

\* df.dropna(subset=["Total_Cost"])
DropNaKeepAll(df) == df
DropNa(df) ==
    [columns |-> df.columns,
     rows |-> SelectRows(df.rows, {df.rows[i].idx : i \in {j \in DOMAIN df.rows : ~IsNa(df.rows[j].Total_Cost)}})]

\* process_sales_data, lines 51-66.  fillna_applies: whether the chained
\* in-place fillna of line 52 reaches the frame (it does without pandas
\* copy-on-write, it does not with it).  Result: raised (KeyError/TypeError),
\* arg (the caller's frame as the call leaves it), valid, errors.
process_sales_data(df_in, product_prices, fillna_applies) ==
    IF "Product" \notin df_in.columns
    THEN [raised |-> TRUE, arg |-> df_in, valid |-> EmptyDataFrame, errors |-> EmptyDataFrame]
    ELSE
    LET r == df_in.rows
        mapped == SeriesMap(r, product_prices)
        unit == IF fillna_applies THEN FillNa(mapped) ELSE mapped
        withUnit == [columns |-> df_in.columns \cup {"Unit_Price"},
                     rows |-> [i \in DOMAIN r |->
                        [idx |-> r[i].idx, Product |-> r[i].Product,
                         Quantity |-> r[i].Quantity, Unit_Price |-> unit[i]]]]
        w == withUnit.rows
        raw == [i \in DOMAIN w |-> RowTotal(w[i])]
    IN IF \E i \in DOMAIN raw : raw[i] = TypeError
       THEN [raised |-> TRUE, arg |-> withUnit, valid |-> EmptyDataFrame, errors |-> EmptyDataFrame]
       ELSE LET total == InferColumn(raw)
                assigned == [columns |-> withUnit.columns \cup {"Total_Cost"},
                             rows |-> [i \in DOMAIN w |->
                                [idx |-> w[i].idx, Product |-> w[i].Product,
                                 Quantity |-> w[i].Quantity, Unit_Price |-> w[i].Unit_Price,
                                 Total_Cost |-> total[i]]]]
            IN [raised |-> FALSE, arg |-> withUnit,
                valid |-> DropNa(assigned), errors |-> ErrorRows(assigned)]

RECURSIVE SumN(_)
SumN(rows) == IF rows = <<>> THEN 0 ELSE Head(rows).Total_Cost.n + SumN(Tail(rows))

NoReport == [made |-> FALSE, total |-> 0, elapsed |-> 0]

\* df["Total_Cost"].sum() and the f-string: a str among the totals makes the
\* sum a str (or fails the addition), which the .2f format rejects.
ReportRaises(df) == \E i \in DOMAIN df.rows : df.rows[i].Total_Cost.t = "str"
generate_sales_report(df, elapsed_time) ==
    [made |-> TRUE, total |-> SumN(df.rows), elapsed |-> elapsed_time]

HeadRows(rows, n) == SubSeq(rows, 1, IF Len(rows) < n THEN Len(rows) ELSE n)

Msg(kind) == [kind |-> kind, body |-> NoReport, rows |-> 0]

\* ------------------------------------------------------------------ state
VARIABLES pc, nargs, files_read, df_products, df_sales_in, product_prices,
          df_sales, errors, report, file, console, exit_status

vars == <<pc, nargs, files_read, df_products, df_sales_in, product_prices,
          df_sales, errors, report, file, console, exit_status>>

\* df_sales_in is the frame main binds to df_sales at line 118 (the object
\* handed to process_sales_data); df_sales is the frame bound at line 121.

Init ==
    /\ pc = "start"
    /\ nargs \in 0..MaxArgs
    /\ files_read = 0
    /\ df_products = EmptyDataFrame
    /\ df_sales_in = EmptyDataFrame
    /\ product_prices = [t \in {} |-> NaN]
    /\ df_sales = EmptyDataFrame
    /\ errors = EmptyDataFrame
    /\ report = NoReport
    /\ file = NoReport
    /\ console = <<>>
    /\ exit_status = 0 - 1

\* an uncaught exception: traceback, exit status 1
Crash ==
    /\ pc' = "crashed"
    /\ console' = Append(console, Msg("traceback"))
    /\ exit_status' = 1

\* lines 111-113
CheckArgsAtLeast ==
    /\ pc = "start"
    /\ IF nargs < 2
       THEN /\ console' = Append(console, Msg("usage"))
            /\ exit_status' = 1
            /\ pc' = "exited"
       ELSE /\ pc' = "load_products"
            /\ UNCHANGED <<console, exit_status>>
    /\ UNCHANGED <<nargs, files_read, df_products, df_sales_in, product_prices,
                   df_sales, errors, report, file>>
CheckArgs ==
    /\ pc = "start"
    /\ IF nargs # 2
       THEN /\ console' = Append(console, Msg("usage"))
            /\ exit_status' = 1
            /\ pc' = "exited"
       ELSE /\ pc' = "load_products"
            /\ UNCHANGED <<console, exit_status>>
    /\ UNCHANGED <<nargs, files_read, df_products, df_sales_in, product_prices,
                   df_sales, errors, report, file>>

\* line 117 with load_json_to_dataframe, lines 26-30
LoadProducts ==
    /\ pc = "load_products"
    /\ \E f \in ProductFiles :
         /\ df_products' = load_products(f)
         /\ console' = IF f.ok THEN console ELSE Append(console, Msg("load_error"))
    /\ files_read' = files_read + 1
    /\ pc' = "load_sales"
    /\ UNCHANGED <<nargs, df_sales_in, product_prices, df_sales, errors, report,
                   file, exit_status>>

\* line 118 with load_json_to_dataframe, lines 26-30
LoadSales ==
    /\ pc = "load_sales"
    /\ \E f \in SalesFiles :
         /\ df_sales_in' = load_sales(f)
         /\ console' = IF f.ok THEN console ELSE Append(console, Msg("load_error"))
    /\ files_read' = files_read + 1
    /\ pc' = "map"
    /\ UNCHANGED <<nargs, df_products, product_prices, df_sales, errors, report,
                   file, exit_status>>

\* line 120: set_index("title") raises KeyError on a frame without that column
MapProductPrices ==
    /\ pc = "map"
    /\ IF "title" \in df_products.columns
       THEN /\ product_prices' = map_product_prices(df_products)
            /\ pc' = "process"
            /\ UNCHANGED <<console, exit_status>>
       ELSE /\ Crash
            /\ UNCHANGED product_prices
    /\ UNCHANGED <<nargs, files_read, df_products, df_sales_in, df_sales, errors,
                   report, file>>

\* line 121
ProcessSalesData ==
    /\ pc = "process"
    /\ \E fillna_applies \in BOOLEAN :
         LET res == process_sales_data(df_sales_in, product_prices, fillna_applies)
         IN /\ df_sales_in' = res.arg
            /\ IF res.raised
               THEN /\ Crash
                    /\ UNCHANGED <<df_sales, errors>>
               ELSE /\ df_sales' = res.valid
                    /\ errors' = res.errors
                    /\ pc' = "report"
                    /\ UNCHANGED <<console, exit_status>>
    /\ UNCHANGED <<nargs, files_read, df_products, product_prices, report, file>>

\* lines 123-124
GenerateSalesReport ==
    /\ pc = "report"
    /\ IF ReportRaises(df_sales)
       THEN /\ Crash
            /\ UNCHANGED report
       ELSE /\ \E elapsed_time \in 0..MaxElapsed :
                 report' = generate_sales_report(df_sales, elapsed_time)
            /\ pc' = "save"
            /\ UNCHANGED <<console, exit_status>>
    /\ UNCHANGED <<nargs, files_read, df_products, df_sales_in, product_prices,
                   df_sales, errors, file>>

\* lines 126-127 with save_report_to_file, lines 94-98: an OSError from open
\* or write is caught and reported
SaveReportToFileUncaught ==
    /\ pc = "save"
    /\ \/ /\ file' = report
          /\ pc' = "print"
          /\ UNCHANGED <<console, exit_status>>
       \/ /\ Crash
          /\ UNCHANGED file
    /\ UNCHANGED <<nargs, files_read, df_products, df_sales_in, product_prices,
                   df_sales, errors, report>>
SaveReportToFile ==
    /\ pc = "save"
    /\ \/ /\ file' = report
          /\ UNCHANGED console
       \/ /\ console' = Append(console, Msg("save_error"))
          /\ UNCHANGED file
    /\ pc' = "print"
    /\ UNCHANGED <<nargs, files_read, df_products, df_sales_in, product_prices,
                   df_sales, errors, report, exit_status>>

\* lines 129-135
PrintResults ==
    /\ pc = "print"
    /\ console' = console
          \o <<[kind |-> "report", body |-> report, rows |-> 0],
               [kind |-> "preview", body |-> NoReport,
                rows |-> Len(HeadRows(df_sales.rows, PreviewRows))]>>
          \o (IF errors.rows # <<>>
              THEN <<[kind |-> "errors", body |-> NoReport,
                      rows |-> Len(HeadRows(errors.rows, ErrorPreviewRows))]>>
              ELSE <<>>)
    /\ pc' = "done"
    /\ exit_status' = 0
    /\ UNCHANGED <<nargs, files_read, df_products, df_sales_in, product_prices,
                   df_sales, errors, report, file>>

Next ==
    \/ CheckArgs
    \/ LoadProducts
    \/ LoadSales
    \/ MapProductPrices
    \/ ProcessSalesData
    \/ GenerateSalesReport
    \/ SaveReportToFile
    \/ PrintResults

Spec == Init /\ [][Next]_vars

\* ----------------------------------------------------------------- claims
Returned == pc \in {"report", "save", "print", "done"}
Reported == pc \in {"save", "print", "done"}
InRows == df_sales_in.rows
Known(row) == row.Product \in DOMAIN product_prices
RowOf(rows, label) == rows[CHOOSE i \in DOMAIN rows : rows[i].idx = label]
SameSale(a, b) == a.idx = b.idx /\ a.Product = b.Product /\ a.Quantity = b.Quantity
Ascending(rows) == \A i, j \in DOMAIN rows : i < j => rows[i].idx < rows[j].idx

\* C1: once process_sales_data has returned, every input sales row is in
\* exactly one of the valid and error partitions: the partitions share no
\* row, together they hold every input row (same Product and Quantity, in
\* input order), and their sizes add up to the size of the input table.
C1_Partition ==
    Returned =>
        /\ Labels(df_sales.rows) \cap Labels(errors.rows) = {}
        /\ Labels(df_sales.rows) \cup Labels(errors.rows) = Labels(InRows)
        /\ Len(df_sales.rows) + Len(errors.rows) = Len(InRows)
        /\ \A i \in DOMAIN df_sales.rows :
              SameSale(df_sales.rows[i], RowOf(InRows, df_sales.rows[i].idx))
        /\ \A i \in DOMAIN errors.rows :
              SameSale(errors.rows[i], RowOf(InRows, errors.rows[i].idx))
        /\ Ascending(df_sales.rows) /\ Ascending(errors.rows)

C1_Witness ==
    pc = "report" /\ Len(df_sales.rows) >= 1 /\ Len(errors.rows) >= 1

RECURSIVE ExpectedTotal(_, _)
\* sum of Quantity * price over the rows whose Product the index knows
ExpectedTotal(rows, prices) ==
    IF rows = <<>> THEN 0
    ELSE (IF Head(rows).Product \in DOMAIN prices
          THEN Head(rows).Quantity.n * prices[Head(rows).Product].n ELSE 0)
         + ExpectedTotal(Tail(rows), prices)

WellFormed == \A i \in DOMAIN InRows : InRows[i].Quantity.t \in {"int", "float"}

\* C2: for a sales table with numeric quantities, the total of the report is
\* the sum of Quantity * (price index entry of Product) over the valid rows,
\* which are the rows whose Product the index knows; error rows add nothing
\* and with no valid row the total is 0.
C2_ReportTotal ==
    (Reported /\ WellFormed) =>
        /\ report.made
        /\ report.total = ExpectedTotal(InRows, product_prices)
        /\ Labels(df_sales.rows) = {InRows[i].idx : i \in {j \in DOMAIN InRows : Known(InRows[j])}}
        /\ \A i \in DOMAIN df_sales.rows :
              df_sales.rows[i].Unit_Price.n = product_prices[df_sales.rows[i].Product].n
        /\ (df_sales.rows = <<>> => report.total = 0)

C2_Witness ==
    /\ pc = "save" /\ WellFormed
    /\ Len(df_sales.rows) >= 1 /\ Len(errors.rows) >= 1
    /\ report.total # 0

\* C3: a sale whose Product is not a key of the price index is in the error
\* partition and not in the valid partition, whatever its Quantity.
C3_UnknownProductIsError ==
    Returned =>
        \A i \in DOMAIN InRows :
            ~Known(InRows[i]) =>
                /\ InRows[i].idx \in Labels(errors.rows)
                /\ InRows[i].idx \notin Labels(df_sales.rows)

C3_Witness ==
    /\ pc = "report"
    /\ \E i \in DOMAIN InRows :
          /\ ~Known(InRows[i]) /\ InRows[i].Quantity = PyInt(0)
          /\ InRows[i].idx \in Labels(errors.rows)
    /\ \E i \in DOMAIN InRows :
          /\ ~Known(InRows[i]) /\ InRows[i].Quantity.t = "str"
          /\ InRows[i].idx \in Labels(errors.rows)

LoadErrors == Cardinality({i \in DOMAIN console : console[i].kind = "load_error"})

\* C4: a run in which both loads failed does not abort: it reaches the
\* report with a total of 0 and ends with success status.
C4_EmptyTablesReport ==
    LoadErrors = 2 =>
        /\ pc # "crashed"
        /\ exit_status # 1
        /\ (pc = "done" => report.made /\ report.total = 0 /\ exit_status = 0)

\* C5: a sale with a non-numeric Quantity whose Product is in the price index
\* ends in the error partition, not in the valid one, and the run does not
\* fail.
C5_StrQuantityIsError ==
    \A i \in DOMAIN InRows :
        (pc \notin {"start", "load_products", "load_sales", "map", "process"}
         /\ Known(InRows[i]) /\ InRows[i].Quantity.t = "str") =>
            /\ pc # "crashed"
            /\ InRows[i].idx \in Labels(errors.rows)
            /\ InRows[i].idx \notin Labels(df_sales.rows)

HasKind(kind) == \E i \in DOMAIN console : console[i].kind = kind

\* C6: with a number of file arguments other than two the run stops at the
\* argument check with status 1: nothing is loaded, no report is made,
\* written or printed.
C6_UsageError ==
    nargs # 2 =>
        /\ pc \in {"start", "exited"}
        /\ files_read = 0
        /\ df_products = EmptyDataFrame /\ df_sales_in = EmptyDataFrame
        /\ report = NoReport /\ file = NoReport
        /\ ~HasKind("report") /\ ~HasKind("preview")
        /\ (pc = "exited" => exit_status = 1 /\ HasKind("usage"))

C6_Witness == pc = "exited" /\ nargs = 3 /\ exit_status = 1

ReportPrinted == \E i \in DOMAIN console : console[i].kind = "report" /\ console[i].body = report

\* C7: from the write step the run always goes on to the print step, whether
\* the write succeeded or failed (a failure only adds a diagnostic), and the
\* print step prints the report that was made and ends the run normally.
C7_ReportPrinted ==
    [][/\ (pc = "save" => pc' = "print" /\ report' = report
                          /\ (file' = report \/ (file' = file /\ HasKind("save_error")')))
       /\ (pc = "print" => pc' = "done" /\ ReportPrinted' /\ exit_status' = 0)]_vars

C7_Witness == pc = "done" /\ HasKind("save_error") /\ ReportPrinted /\ file = NoReport

\* C8: the price index has one entry per distinct title of the product
\* table, and the price of a title is that of its last row in table order.
C8_LastTitleWins ==
    pc \notin {"start", "exited", "load_products", "load_sales", "map", "crashed"} =>
        LET r == df_products.rows
        IN /\ DOMAIN product_prices = {r[i].title : i \in DOMAIN r}
           /\ \A i \in DOMAIN r :
                 (\A j \in DOMAIN r : j > i => r[j].title # r[i].title)
                    => product_prices[r[i].title] = r[i].price

C8_Witness ==
    /\ pc = "process"
    /\ Len(df_products.rows) = 2
    /\ df_products.rows[1].title = "A" /\ df_products.rows[2].title = "A"
    /\ df_products.rows[1].price.n = 10 /\ df_products.rows[2].price.n = 12
    /\ product_prices["A"].n = 12

\* C9: process_sales_data leaves the frame and the price index it was given
\* as they were.
C9_NoSideEffects ==
    [][pc = "process" => (df_sales_in' = df_sales_in /\ product_prices' = product_prices)]_vars

ValidRow(label) == RowOf(df_sales.rows, label)

\* C10: a sale of a known product with Quantity 0 is valid with Total_Cost 0,
\* and one with a negative Quantity is valid with a negative Total_Cost
\* (prices being positive).
C10_ZeroAndNegativeQuantity ==
    Returned =>
        \A i \in DOMAIN InRows :
            (Known(InRows[i]) /\ InRows[i].Quantity.t \in {"int", "float"}
             /\ InRows[i].Quantity.n <= 0) =>
                /\ InRows[i].idx \in Labels(df_sales.rows)
                /\ InRows[i].idx \notin Labels(errors.rows)
                /\ ValidRow(InRows[i].idx).Total_Cost.t \in {"int", "float"}
                /\ ValidRow(InRows[i].idx).Total_Cost.n
                      = InRows[i].Quantity.n * product_prices[InRows[i].Product].n
                /\ (InRows[i].Quantity.n = 0 => ValidRow(InRows[i].idx).Total_Cost.n = 0)
                /\ (InRows[i].Quantity.n < 0 => ValidRow(InRows[i].idx).Total_Cost.n < 0)

C10_Witness ==
    /\ pc = "report"
    /\ \E i \in DOMAIN df_sales.rows :
          df_sales.rows[i].Quantity.n = 0 /\ df_sales.rows[i].Total_Cost.n = 0
    /\ \E i \in DOMAIN df_sales.rows :
          df_sales.rows[i].Quantity.n < 0 /\ df_sales.rows[i].Total_Cost.n < 0

====
